---- MODULE Spec2Model ----
(***************************************************************************)
(* A model of the image-merger crate: the shared canvas written through    *)
(* unchecked handouts (cell.rs), the paste primitive (functions.rs) and    *)
(* the KnownSizeMerger grid (merger/known.rs).                              *)
(*                                                                         *)
(* Images are records [width, height, data]; data is the flat subpixel     *)
(* container (1-based here, 0-based in the source).  Option<T> is a        *)
(* sequence of length 0 (None) or 1 (Some).  A parallel region is the set  *)
(* of pixel writes it issues; a buffer position that several writes race   *)
(* on is left Indeterminate, and a write past the end of the buffer is     *)
(* undefined behaviour (the call may abort the process).                   *)
(***************************************************************************)
EXTENDS Integers, Sequences, FiniteSets, TLC

VARIABLES
    created,            \* TRUE iff the constructor returned a merger
    canvas,             \* KnownSizeMerger.canvas (the image inside the ImageCell)
    image_dimensions,   \* KnownSizeMerger.image_dimensions
    num_images,         \* KnownSizeMerger.num_images
    images_per_row,     \* KnownSizeMerger.images_per_row
    last_pasted_index,  \* KnownSizeMerger.last_pasted_index
    total_rows,         \* KnownSizeMerger.total_rows
    padding,            \* KnownSizeMerger.padding
    ctor,               \* history: the constructor call that built the state
    history,            \* history: the images inserted so far, in slot order
    calls,              \* history: a summary of the calls made so far
    last,               \* history: the most recent call and how it ended
    resized,            \* the resize_nearest_neighbor call: arguments and new image
    pc,                 \* the calling thread: "idle", or "joining" inside for_each
    pending,            \* the pixel writes spawned on the pool and not yet run
    inflight,           \* history: the merger and the arguments at the latest call
    handouts,           \* the handouts of the ImageCell that were requested and not used
    threads             \* the calls of threads that share one merger unserialised

vars == <<created, canvas, image_dimensions, num_images, images_per_row,
          last_pasted_index, total_rows, padding, ctor, history, calls, last,
          resized, pc, pending, inflight, handouts, threads>>

(* ------------------------------ bounds -------------------------------- *)
MaxCell == 2
MaxCols == 2
MaxTotal == 3
MaxPad == 1
NumIds == 2
MaxSlack == 1
MaxBatch == 2
MaxSource == 26
MaxHandouts == 2

(* --------------------------- pixel buffers ---------------------------- *)
\* <P as Pixel>::CHANNEL_COUNT for a two-channel pixel type (LumaA).
CHANNEL_COUNT == 2

None == <<>>
Some(v) == <<v>>

Zeros(n) == [k \in 1..n |-> 0]

\* Image::new / ImageBuffer::new: a zeroed buffer of exactly width*height pixels.
Image_new(width, height) ==
    [width |-> width, height |-> height,
     data |-> Zeros(width * height * CHANNEL_COUNT)]

\* Variant: only a container of exactly the required length is taken.
Image_new_from_raw_exact(width, height, container) ==
    IF width * height * CHANNEL_COUNT = Len(container)
    THEN Some([width |-> width, height |-> height, data |-> container])
    ELSE None

\* Image::new_from_raw -> ImageBuffer::from_raw: the container is taken as it is
\* when it holds at least width*height*CHANNEL_COUNT subpixels.
Image_new_from_raw(width, height, container) ==
    IF width * height * CHANNEL_COUNT <= Len(container)
    THEN Some([width |-> width, height |-> height, data |-> container])
    ELSE None

\* The pixel (a CHANNEL_COUNT-tuple) an image holds at (x, y).
get_pixel(image, x, y) ==
    [c \in 1..CHANNEL_COUNT |-> image.data[(y * image.width + x) * CHANNEL_COUNT + c]]

\* The coordinates of the pixels of an image.
Coordinates(image) == (0..(image.width - 1)) \X (0..(image.height - 1))

\* An input image: the subpixel at flat position k of image `id` is id*100 + k,
\* so that every subpixel of every input is distinct and non-zero.
TestImage(id, width, height) ==
    [width |-> width, height |-> height,
     data |-> [k \in 1..(width * height * CHANNEL_COUNT) |-> id * 100 + k]]

(* ------------------------- handouts and paste ------------------------- *)
\* Variant: the column is left out of the buffer position.
pixel_indices_row_only(image, x, y) ==
    [c \in 1..CHANNEL_COUNT |-> (y * image.width) * CHANNEL_COUNT + c]

\* ImageCell::request_handout + Handout::unsafe_put_pixel: the buffer positions
\* (1-based) a write at (x, y) stores into; no bounds check is made.
pixel_indices_unchecked(image, x, y) ==
    [c \in 1..CHANNEL_COUNT |-> (y * image.width + x) * CHANNEL_COUNT + c]

\* ImageCell::request_handout: a Handout for (x, y), whatever was handed out
\* before.
request_handout(x, y) == [x |-> x, y |-> y]

\* Variant: the checked request records nothing.
request_handout_untracked(tracked, x, y) ==
    IF <<x, y>> \in tracked
    THEN [handout |-> None, tracked |-> tracked]
    ELSE [handout |-> Some([x |-> x, y |-> y]), tracked |-> tracked]

\* The checked request: the coordinate is recorded in the set the canvas keeps,
\* and a coordinate that is in the set gets no handout.
request_handout_checked(tracked, x, y) ==
    IF <<x, y>> \in tracked
    THEN [handout |-> None, tracked |-> tracked]
    ELSE [handout |-> Some([x |-> x, y |-> y]), tracked |-> tracked \cup { <<x, y>> }]

\* No handout is out: tracked is the set the canvas keeps, checked and
\* unchecked are the handouts the callers hold (for a coordinate, whether a
\* checked one is held and how many unchecked ones).
NoHandouts == [tracked |-> {}, checked |-> {}, unchecked |-> {}]

\* Variant: every pixel lands one column to the right.
paste_one_right(top, loc) ==
    LET image_width == top.width
        chunks == Len(top.data) \div CHANNEL_COUNT
    IN { [task |-> <<index>>,
          x |-> loc.x + (index % image_width) + 1,
          y |-> loc.y + (index \div image_width),
          pixel |-> [c \in 1..CHANNEL_COUNT |-> top.data[index * CHANNEL_COUNT + c]]]
         : index \in 0..(chunks - 1) }

\* paste: the handout writes one call issues, one per CHANNEL_COUNT-sized chunk
\* of the top image's container.
paste(top, loc) ==
    LET image_width == top.width
        chunks == Len(top.data) \div CHANNEL_COUNT
    IN { [task |-> <<index>>,
          x |-> loc.x + (index % image_width),
          y |-> loc.y + (index \div image_width),
          pixel |-> [c \in 1..CHANNEL_COUNT |-> top.data[index * CHANNEL_COUNT + c]]]
         : index \in 0..(chunks - 1) }

\* The subpixel stores of a set of writes: <<buffer position, value>>.
Stores(image, writes) ==
    UNION { { <<pixel_indices_unchecked(image, w.x, w.y)[c], w.pixel[c]>>
              : c \in 1..CHANNEL_COUNT } : w \in writes }

\* TRUE iff some write of the set stores past the end of the buffer.
OutOfBuffer(image, writes) ==
    \E s \in Stores(image, writes) : s[1] > Len(image.data)

\* The value a buffer position holds after two or more unsynchronised stores
\* raced on it: any of the stored values (it stands for all of them).
Indeterminate == -1

\* The image a parallel region of unsynchronised writes leaves behind: a
\* position stored to once holds the stored value, a position several stores
\* raced on is Indeterminate, stores past the end of the buffer are not in it.
ApplyWrites(image, writes) ==
    LET stores == { s \in Stores(image, writes) : s[1] <= Len(image.data) }
        at(k) == { s \in stores : s[1] = k }
    IN [image EXCEPT !.data =
          [k \in 1..Len(image.data) |->
             IF at(k) = {} THEN image.data[k]
             ELSE IF Cardinality(at(k)) = 1 THEN (CHOOSE s \in at(k) : TRUE)[2]
             ELSE Indeterminate]]

(* ------------------------------- resize -------------------------------- *)
\* The significand of an f32 has 24 bits.
MANTISSA_DIGITS == 24

\* n / d rounded to the nearest integer, ties to the even one (the rounding
\* of every f32 operation).
RoundTiesEven(n, d) ==
    LET q == n \div d
        r == n % d
    IN IF 2 * r < d THEN q
       ELSE IF 2 * r > d THEN q + 1
       ELSE IF q % 2 = 0 THEN q ELSE q + 1

RECURSIVE Exponent(_, _)
\* The k with 2^k <= a / b < 2^(k+1), for a, b > 0.
Exponent(a, b) ==
    IF a >= 2 * b THEN Exponent(a, 2 * b) + 1
    ELSE IF a < b THEN Exponent(2 * a, b) - 1
    ELSE 0

RECURSIVE ExcessBits(_)
\* How many bits n has beyond 24.
ExcessBits(n) == IF n < 2 ^ MANTISSA_DIGITS THEN 0 ELSE ExcessBits(n \div 2) + 1

\* An f32 value is [m, s]: the number m / 2^s, m of at most 24 bits.
\* A rounding that carried into a 25th bit gives a power of two.
Normal(v) ==
    IF v.m = 2 ^ MANTISSA_DIGITS
    THEN [m |-> 2 ^ (MANTISSA_DIGITS - 1), s |-> v.s - 1]
    ELSE v

\* `n as f32` for an integer 0 <= n < 2^31: n rounded to 24 significant bits.
as_f32(n) ==
    LET e == ExcessBits(n)
    IN Normal([m |-> RoundTiesEven(n, 2 ^ e), s |-> 0 - e])

RECURSIVE LongDivision(_, _, _, _)
\* n more binary digits of a quotient that has reached q with remainder
\* r < d <= 2^24, six digits at a time.
LongDivision(q, r, d, n) ==
    IF n = 0 THEN [q |-> q, r |-> r]
    ELSE LET digits == IF n >= 6 THEN 6 ELSE n
             t == r * (2 ^ digits)
         IN LongDivision((q * (2 ^ digits)) + (t \div d), t % d, d, n - digits)

\* `a as f32 / b as f32` for integers 0 < a, b < 2^31: both are converted,
\* and the quotient is rounded to 24 significant bits.
f32_div(a, b) ==
    LET x == as_f32(a)
        y == as_f32(b)
        k == (MANTISSA_DIGITS - 1) - Exponent(x.m, y.m)
        l == LongDivision(x.m \div y.m, x.m % y.m, y.m, k)
    IN Normal([m |-> IF k < 0 THEN RoundTiesEven(x.m, y.m * (2 ^ (0 - k)))
                     ELSE IF 2 * l.r < y.m THEN l.q
                     ELSE IF 2 * l.r > y.m THEN l.q + 1
                     ELSE IF l.q % 2 = 0 THEN l.q ELSE l.q + 1,
               s |-> (k + x.s) - y.s])

RECURSIVE BitLength(_)
\* How many bits n has.
BitLength(n) == IF n = 0 THEN 0 ELSE BitLength(n \div 2) + 1

\* The product a * b of two significands, as hi * 2^24 + lo.
WideProduct(a, b) ==
    LET half == 2 ^ (MANTISSA_DIGITS \div 2)
        ah == a \div half
        al == a % half
        bh == b \div half
        bl == b % half
        mid == (ah * bl) + (al * bh)
        low == (al * bl) + ((mid % half) * half)
    IN [hi |-> (ah * bh) + (mid \div half) + (low \div (2 ^ MANTISSA_DIGITS)),
        lo |-> low % (2 ^ MANTISSA_DIGITS)]

\* `i as f32 * r` for an integer 0 <= i < 2^31: i is converted, and the
\* product is rounded to 24 significant bits.
f32_mul(i, r) ==
    LET x == as_f32(i)
        p == WideProduct(x.m, r.m)
        t == BitLength(p.hi)
        q == (p.hi * (2 ^ (MANTISSA_DIGITS - t))) + (p.lo \div (2 ^ t))
        rest == p.lo % (2 ^ t)
    IN Normal([m |-> IF 2 * rest < 2 ^ t THEN q
                     ELSE IF 2 * rest > 2 ^ t THEN q + 1
                     ELSE IF q % 2 = 0 THEN q ELSE q + 1,
               s |-> (x.s + r.s) - t])

\* `v as u32` for 0 <= v < 2^31: the fraction is cut off.
as_u32(v) ==
    IF v.s > MANTISSA_DIGITS THEN 0
    ELSE IF v.s >= 0 THEN v.m \div (2 ^ v.s)
    ELSE v.m * (2 ^ (0 - v.s))

\* The source pixel resize_nearest_neighbor reads for the new pixel (i, j).
resize_source(image, nwidth, nheight, i, j) ==
    LET height_ratio == f32_div(image.height, nheight)
        width_ratio == f32_div(image.width, nwidth)
    IN [x |-> as_u32(f32_mul(i, width_ratio)),
        y |-> as_u32(f32_mul(j, height_ratio))]

\* TRUE iff image.get_pixel panics for some new pixel.
resize_panics(image, nwidth, nheight) ==
    \E i \in 0..(nwidth - 1), j \in 0..(nheight - 1) :
       LET p == resize_source(image, nwidth, nheight, i, j)
       IN p.x >= image.width \/ p.y >= image.height

\* Variant: every task of a column requests the handout of row 0.
resize_writes_row_zero(image, nwidth, nheight) ==
    { LET p == resize_source(image, nwidth, nheight, i, j)
      IN [task |-> <<i, j>>, x |-> i, y |-> 0, pixel |-> get_pixel(image, p.x, p.y)]
      : i \in 0..(nwidth - 1), j \in 0..(nheight - 1) }

\* The handout writes of the parallel region of resize_nearest_neighbor, one
\* for every (i, j) of the new image.
resize_writes(image, nwidth, nheight) ==
    { LET p == resize_source(image, nwidth, nheight, i, j)
      IN [task |-> <<i, j>>, x |-> i, y |-> j, pixel |-> get_pixel(image, p.x, p.y)]
      : i \in 0..(nwidth - 1), j \in 0..(nheight - 1) }

\* Variant: the handout is requested at (j, i).
resize_nearest_neighbor_transposed(image, nwidth, nheight) ==
    LET new_image == Image_new(nwidth, nheight)
        height_ratio == f32_div(image.height, nheight)
        width_ratio == f32_div(image.width, nwidth)
        x(i) == as_u32(f32_mul(i, width_ratio))
        y(j) == as_u32(f32_mul(j, height_ratio))
    IN Some(ApplyWrites(new_image,
                        { [task |-> <<i, j>>, x |-> j, y |-> i,
                           pixel |-> get_pixel(image, x(i), y(j))]
                          : i \in 0..(nwidth - 1), j \in 0..(nheight - 1) }))

\* resize_nearest_neighbor, for nwidth, nheight > 0: Some(the new image), or
\* None when image.get_pixel panics on a coordinate outside the source.
resize_nearest_neighbor(image, nwidth, nheight) ==
    LET new_image == Image_new(nwidth, nheight)
    IN IF resize_panics(image, nwidth, nheight) THEN None
       ELSE Some(ApplyWrites(new_image, resize_writes(image, nwidth, nheight)))

(* ----------------------------- the merger ----------------------------- *)
PadX(p) == IF p = None THEN 0 ELSE p[1].x
PadY(p) == IF p = None THEN 0 ELSE p[1].y

MergerOf(cv, dims, ipr, rows, pad) ==
    [canvas |-> cv, image_dimensions |-> dims, num_images |-> 0,
     images_per_row |-> ipr, last_pasted_index |-> -1, total_rows |-> rows,
     padding |-> pad]

\* Variant: one gap per column and per row.
CanvasSize_gap_per_cell(dims, ipr, total_images, pad) ==
    LET rows == (total_images + ipr - 1) \div ipr
        image_gaps_x == ipr * PadX(pad)
        image_gaps_y == rows * PadY(pad)
    IN [rows |-> rows,
        width |-> (dims[1] * ipr) + image_gaps_x,
        height |-> (dims[2] * rows) + image_gaps_y]

\* Variant: the number of rows is the quotient plus one.
CanvasSize_one_row_more(dims, ipr, total_images, pad) ==
    LET rows == (total_images \div ipr) + 1
        image_gaps_x == (ipr - 1) * PadX(pad)
        image_gaps_y == (rows - 1) * PadY(pad)
    IN [rows |-> rows,
        width |-> (dims[1] * ipr) + image_gaps_x,
        height |-> (dims[2] * rows) + image_gaps_y]

\* The canvas size both constructors derive.
CanvasSize(dims, ipr, total_images, pad) ==
    LET rows == (total_images + ipr - 1) \div ipr
        image_gaps_x == (ipr - 1) * PadX(pad)
        image_gaps_y == (rows - 1) * PadY(pad)
    IN [rows |-> rows,
        width |-> (dims[1] * ipr) + image_gaps_x,
        height |-> (dims[2] * rows) + image_gaps_y]

\* Variant: the number of rows is rounded down.
new_floor_rows(dims, ipr, total_images, pad) ==
    LET rows == total_images \div ipr
        image_gaps_x == (ipr - 1) * PadX(pad)
        image_gaps_y == (rows - 1) * PadY(pad)
    IN MergerOf(Image_new((dims[1] * ipr) + image_gaps_x,
                          (dims[2] * rows) + image_gaps_y),
                dims, ipr, rows, pad)

\* KnownSizeMerger::new
new(dims, ipr, total_images, pad) ==
    LET s == CanvasSize(dims, ipr, total_images, pad)
    IN MergerOf(Image_new(s.width, s.height), dims, ipr, s.rows, pad)

\* KnownSizeMerger::new_from_raw
new_from_raw(dims, ipr, total_images, pad, container) ==
    LET s == CanvasSize(dims, ipr, total_images, pad)
        img == Image_new_from_raw(s.width, s.height, container)
    IN IF img = None THEN None
       ELSE Some(MergerOf(img[1], dims, ipr, s.rows, pad))

\* Variant: one slot more than the grid has.
additional_space_plus_one(m) == (m.images_per_row * m.total_rows) - m.num_images + 1

\* KnownSizeMerger::additional_space
additional_space(m) == (m.images_per_row * m.total_rows) - m.num_images

\* Variant: the padding is left out of the slot coordinates.
get_paste_coordinates_nopad(m, index) ==
    LET offset_x == index % m.images_per_row
        offset_y == index \div m.images_per_row
    IN [x |-> offset_x * m.image_dimensions[1],
        y |-> offset_y * m.image_dimensions[2]]

\* The (column, row) grid cell get_paste_coordinates_unchecked computes for a
\* slot index (its offset_x and offset_y).
grid_cell(m, index) ==
    <<index % m.images_per_row, index \div m.images_per_row>>

\* Variant: the padding is multiplied by the slot index, not by the column
\* and the row.
get_paste_coordinates_pad_by_index(m, index) ==
    LET offset_x == index % m.images_per_row
        offset_y == index \div m.images_per_row
        padding_x == PadX(m.padding) * index
        padding_y == PadY(m.padding) * index
    IN [x |-> (offset_x * m.image_dimensions[1]) + padding_x,
        y |-> (offset_y * m.image_dimensions[2]) + padding_y]

\* KnownSizeMerger::get_paste_coordinates_unchecked
get_paste_coordinates_unchecked(m, index) ==
    LET offset_x == index % m.images_per_row
        offset_y == index \div m.images_per_row
        padding_x == PadX(m.padding) * offset_x
        padding_y == PadY(m.padding) * offset_y
    IN [x |-> (offset_x * m.image_dimensions[1]) + padding_x,
        y |-> (offset_y * m.image_dimensions[2]) + padding_y]

\* Variant: the slot of last_pasted_index is handed out once more.
get_next_paste_coordinates_same_slot(m) ==
    IF additional_space(m) = 0 THEN None
    ELSE Some(get_paste_coordinates_unchecked(m, m.last_pasted_index))

\* KnownSizeMerger::get_next_paste_coordinates: None stands for the panic
\* "No more space on the canvas!".
get_next_paste_coordinates(m) ==
    IF additional_space(m) = 0 THEN None
    ELSE Some(get_paste_coordinates_unchecked(m, m.last_pasted_index + 1))

\* What a call can end in: it returned ("ok"), it panicked before touching the
\* merger ("panic"), or a write past the buffer aborted the process ("abort").
\* oob tells whether the call issued a write past the end of the buffer.
Outcome(m, result, oob) == [m |-> m, result |-> result, oob |-> oob]

\* One parallel region over the canvas: every buffer it can leave behind, and
\* the abort an out-of-buffer write can cause.
PasteOutcomes(m, writes) ==
    LET oob == OutOfBuffer(m.canvas, writes)
    IN { Outcome([m EXCEPT !.canvas = ApplyWrites(m.canvas, writes)], "ok", oob) }
       \cup (IF oob THEN { Outcome(m, "abort", TRUE) } ELSE {})

\* The writes of KnownSizeMerger::push (one paste at the next slot).
push_writes(m, image) ==
    paste(image, get_next_paste_coordinates(m)[1])

\* Variant: last_pasted_index is not advanced.
push_index_kept(m, image) ==
    IF get_next_paste_coordinates(m) = None
    THEN { Outcome(m, "panic", FALSE) }
    ELSE { IF o.result = "ok"
           THEN [o EXCEPT !.m.num_images = @ + 1]
           ELSE o
           : o \in PasteOutcomes(m, push_writes(m, image)) }

\* KnownSizeMerger::push
push(m, image) ==
    IF get_next_paste_coordinates(m) = None
    THEN { Outcome(m, "panic", FALSE) }
    ELSE { IF o.result = "ok"
           THEN [o EXCEPT !.m.last_pasted_index = @ + 1, !.m.num_images = @ + 1]
           ELSE o
           : o \in PasteOutcomes(m, push_writes(m, image)) }

\* Variant: the batch is laid out back to front.
bulk_push_writes_reversed(m, images) ==
    UNION { LET offset_index == index + m.last_pasted_index + 1
                loc == get_paste_coordinates_unchecked(m, offset_index)
            IN { [task |-> <<index>> \o w.task, x |-> w.x, y |-> w.y, pixel |-> w.pixel]
                 : w \in paste(images[Len(images) - index], loc) }
            : index \in 0..(Len(images) - 1) }

\* The writes of the parallel region of KnownSizeMerger::bulk_push: task
\* <<index, k>> is the k-th pixel of images[index] (0-based).
bulk_push_writes(m, images) ==
    UNION { LET offset_index == index + m.last_pasted_index + 1
                loc == get_paste_coordinates_unchecked(m, offset_index)
            IN { [task |-> <<index>> \o w.task, x |-> w.x, y |-> w.y, pixel |-> w.pixel]
                 : w \in paste(images[index + 1], loc) }
            : index \in 0..(Len(images) - 1) }

\* Variant: the capacity check of push (is any slot left?) in place of the
\* check against the batch length.
bulk_push_checks_one_slot(m, images) ==
    IF additional_space(m) = 0 /\ Len(images) > 0
    THEN { Outcome(m, "panic", FALSE) }
    ELSE { IF o.result = "ok"
           THEN [o EXCEPT !.m.last_pasted_index = @ + Len(images),
                          !.m.num_images = @ + Len(images)]
           ELSE o
           : o \in PasteOutcomes(m, bulk_push_writes(m, images)) }

\* Variant: no capacity check.
bulk_push_unchecked(m, images) ==
    { IF o.result = "ok"
      THEN [o EXCEPT !.m.last_pasted_index = @ + Len(images),
                     !.m.num_images = @ + Len(images)]
      ELSE o
      : o \in PasteOutcomes(m, bulk_push_writes(m, images)) }

\* Variant: a batch counts as one image.
bulk_push_counts_one(m, images) ==
    IF additional_space(m) < Len(images)
    THEN { Outcome(m, "panic", FALSE) }
    ELSE { IF o.result = "ok"
           THEN [o EXCEPT !.m.last_pasted_index = @ + Len(images),
                          !.m.num_images = @ + 1]
           ELSE o
           : o \in PasteOutcomes(m, bulk_push_writes(m, images)) }

\* Variant: the capacity check refuses a batch that leaves no slot free.
bulk_push_strict_check(m, images) ==
    IF additional_space(m) <= Len(images)
    THEN { Outcome(m, "panic", FALSE) }
    ELSE { IF o.result = "ok"
           THEN [o EXCEPT !.m.last_pasted_index = @ + Len(images),
                          !.m.num_images = @ + Len(images)]
           ELSE o
           : o \in PasteOutcomes(m, bulk_push_writes(m, images)) }

\* KnownSizeMerger::bulk_push
bulk_push(m, images) ==
    IF additional_space(m) < Len(images)
    THEN { Outcome(m, "panic", FALSE) }
    ELSE { IF o.result = "ok"
           THEN [o EXCEPT !.m.last_pasted_index = @ + Len(images),
                          !.m.num_images = @ + Len(images)]
           ELSE o
           : o \in PasteOutcomes(m, bulk_push_writes(m, images)) }

\* Variant: the image is pushed as it is.
resize_push_unresized(m, image) == push(m, image)

\* ResizeMerger::resize_push
resize_push(m, image) ==
    IF <<image.width, image.height>> # m.image_dimensions
    THEN LET resized_image == resize_nearest_neighbor(image, m.image_dimensions[1],
                                                       m.image_dimensions[2])
         IN IF resized_image = None THEN { Outcome(m, "panic", FALSE) }
            ELSE push(m, resized_image[1])
    ELSE push(m, image)

\* The Vec resized_images of resize_bulk_push; an entry is None where
\* resize_nearest_neighbor panicked.
resized_images(m, images) ==
    [k \in 1..Len(images) |->
       IF <<images[k].width, images[k].height>> # m.image_dimensions
       THEN resize_nearest_neighbor(images[k], m.image_dimensions[1], m.image_dimensions[2])
       ELSE Some(images[k])]

\* Variant: the images that have the cell size already are left out.
resize_bulk_push_drops_cell_sized(m, images) ==
    LET other == SelectSeq(images, LAMBDA i : <<i.width, i.height>> # m.image_dimensions)
        rs == resized_images(m, other)
    IN IF \E k \in 1..Len(rs) : rs[k] = None THEN { Outcome(m, "panic", FALSE) }
       ELSE bulk_push(m, [k \in 1..Len(rs) |-> rs[k][1]])

\* ResizeMerger::resize_bulk_push
resize_bulk_push(m, images) ==
    LET rs == resized_images(m, images)
    IN IF \E k \in 1..Len(rs) : rs[k] = None THEN { Outcome(m, "panic", FALSE) }
       ELSE bulk_push(m, [k \in 1..Len(rs) |-> rs[k][1]])

\* The point remove_image_raw and remove_image paste the blank image at.
remove_image_point(m, index) ==
    LET offset_x == index % m.images_per_row
        offset_y == index \div m.images_per_row
    IN [x |-> offset_x * m.image_dimensions[1],
        y |-> offset_y * m.image_dimensions[2]]

\* KnownSizeMerger::remove_image_raw; ret is the Option<()> it returns.
remove_image_raw(m, index, container) ==
    LET black_image == Image_new_from_raw(m.image_dimensions[1], m.image_dimensions[2], container)
    IN IF black_image = None
       THEN { [ret |-> None, out |-> Outcome(m, "ok", FALSE)] }
       ELSE { [ret |-> Some(<<>>), out |-> o]
              : o \in PasteOutcomes(m, paste(black_image[1], remove_image_point(m, index))) }

\* Variant: the removal gives the last slot back.
remove_image_frees_slot(m, index) ==
    LET black_image == Image_new(m.image_dimensions[1], m.image_dimensions[2])
    IN { IF o.result = "ok"
         THEN [o EXCEPT !.m.last_pasted_index = @ - 1, !.m.num_images = @ - 1]
         ELSE o
         : o \in PasteOutcomes(m, paste(black_image, remove_image_point(m, index))) }

\* Variant: the second paste goes to the coordinates push uses for the slot.
remove_image_second_at_slot(m, index) ==
    LET container == Zeros(m.image_dimensions[1] * m.image_dimensions[2] * CHANNEL_COUNT)
        black_image == Image_new(m.image_dimensions[1], m.image_dimensions[2])
        second(o) == { [o2 EXCEPT !.oob = o.oob \/ o2.oob]
                       : o2 \in PasteOutcomes(o.m, paste(black_image,
                                   get_paste_coordinates_unchecked(m, index))) }
    IN UNION { IF r.ret = None THEN { Outcome(m, "panic", FALSE) }
               ELSE IF r.out.result # "ok" THEN { r.out }
               ELSE second(r.out)
               : r \in remove_image_raw(m, index, container) }

\* KnownSizeMerger::remove_image: remove_image_raw with a zeroed Vec, unwrapped,
\* then a second paste of a blank image at the same point.
remove_image(m, index) ==
    LET container == Zeros(m.image_dimensions[1] * m.image_dimensions[2] * CHANNEL_COUNT)
        black_image == Image_new(m.image_dimensions[1], m.image_dimensions[2])
        second(o) == { [o2 EXCEPT !.oob = o.oob \/ o2.oob]
                       : o2 \in PasteOutcomes(o.m, paste(black_image, remove_image_point(m, index))) }
    IN UNION { IF r.ret = None THEN { Outcome(m, "panic", FALSE) }
               ELSE IF r.out.result # "ok" THEN { r.out }
               ELSE second(r.out)
               : r \in remove_image_raw(m, index, container) }

(* -------------------------- the state machine --------------------------- *)
\* Cells of at most MaxCell pixels.
Dimensions == { d \in (1..MaxCell) \X (1..MaxCell) : d[1] * d[2] <= MaxCell }
\* No padding, or a padding of MaxPad pixels in all spread over the two axes.
Paddings == { None } \cup { Some([x |-> px, y |-> MaxPad - px]) : px \in 0..MaxPad }

\* The merger the variables hold.
Merger ==
    [canvas |-> canvas, image_dimensions |-> image_dimensions, num_images |-> num_images,
     images_per_row |-> images_per_row, last_pasted_index |-> last_pasted_index,
     total_rows |-> total_rows, padding |-> padding]

capacity == images_per_row * total_rows

\* The images a caller passes.  Those of the cell size are what the merger
\* is documented for ("images must be a uniform size"); the API also accepts
\* any other size, here one pixel wider and one pixel taller than the cell.
OddId == NumIds + 1
CellIds == 1..NumIds
ImageIds == 1..OddId
\* resize_push and resize_bulk_push are made for images of other sizes: the
\* state machine passes them a cell-sized image, the larger one and one of a
\* single pixel; the API also accepts one of twice the cell size.
DoubleId == NumIds + 2
UnitId == NumIds + 3
ResizeIds == { 1, OddId, UnitId }
AnyResizeIds == ResizeIds \cup { DoubleId }
InputImage(dims, id) ==
    IF id = OddId THEN TestImage(id, dims[1] + 1, dims[2] + 1)
    ELSE IF id = DoubleId THEN TestImage(id, 2 * dims[1], 2 * dims[2])
    ELSE IF id = UnitId THEN TestImage(id, 1, 1)
    ELSE TestImage(id, dims[1], dims[2])
InputImages(dims, ids) == [i \in 1..Len(ids) |-> InputImage(dims, ids[i])]

BatchesOf(S) == UNION { [1..n -> S] : n \in 0..MaxBatch }

NoCall == [op |-> "none", result |-> "ok", n |-> 0]

\* TRUE iff no two writes of one parallel region target one canvas coordinate.
Disjoint(writes) ==
    \A a \in writes : \A b \in writes : (a.x = b.x /\ a.y = b.y) => a = b

SetMerger(m) ==
    /\ canvas' = m.canvas
    /\ image_dimensions' = m.image_dimensions
    /\ num_images' = m.num_images
    /\ images_per_row' = m.images_per_row
    /\ last_pasted_index' = m.last_pasted_index
    /\ total_rows' = m.total_rows
    /\ padding' = m.padding

InitWith(opt, c) ==
    LET m == IF opt = None THEN new(<<1, 1>>, 1, 1, None) ELSE opt[1]
    IN /\ created = (opt # None)
       /\ canvas = m.canvas
       /\ image_dimensions = m.image_dimensions
       /\ num_images = m.num_images
       /\ images_per_row = m.images_per_row
       /\ last_pasted_index = m.last_pasted_index
       /\ total_rows = m.total_rows
       /\ padding = m.padding
       /\ ctor = c
       /\ history = <<>>
       /\ calls = "push"
       /\ last = NoCall
       /\ resized = None
       /\ pc = "idle"
       /\ pending = {}
       /\ inflight = None
       /\ handouts = NoHandouts
       /\ threads = None

\* The state after construction, by new or by new_from_raw with a zeroed
\* container up to MaxSlack subpixels shorter or longer than the canvas needs.
Init ==
    \E dims \in Dimensions, ipr \in 1..MaxCols, total \in 1..MaxTotal, pad \in Paddings :
        LET s == CanvasSize(dims, ipr, total, pad)
            need == s.width * s.height * CHANNEL_COUNT
        IN \/ InitWith(Some(new(dims, ipr, total, pad)),
                       [total_images |-> total, len |-> need, need |-> need])
           \/ \E len \in (need - MaxSlack)..(need + MaxSlack) :
                InitWith(new_from_raw(dims, ipr, total, pad, Zeros(len)),
                         [total_images |-> total, len |-> len, need |-> need])

\* calls sums the calls up: "push" while every call was a push of a cell-sized
\* image, "insert" while every call was a push or bulk_push of cell-sized
\* images, "resize_push" while every call was a resize_push, "resize_insert"
\* while every call was a resize_push or resize_bulk_push, "any" afterwards.
Finish(o, call, kind) ==
    /\ SetMerger(o.m)
    /\ last' = [call EXCEPT !.result = o.result]
    /\ calls' = IF last.op = "none" \/ calls = kind THEN kind
                ELSE IF {calls, kind} \subseteq {"push", "insert"} THEN "insert"
                ELSE IF {calls, kind} \subseteq {"resize_push", "resize_insert"}
                     THEN "resize_insert"
                ELSE "any"
    /\ UNCHANGED <<created, ctor, resized, pc, pending, inflight, handouts, threads>>

\* The calls the state machine makes keep to the documented use: images of
\* the cell size, and indices of slots of the grid.
Push ==
    /\ created
    /\ \E id \in CellIds :
         \E o \in push(Merger, InputImage(image_dimensions, id)) :
              /\ Finish(o, [NoCall EXCEPT !.op = "push", !.n = 1], "push")
              /\ history' = IF o.result = "ok" THEN Append(history, id) ELSE history

BulkPush ==
    /\ created
    /\ \E ids \in BatchesOf(CellIds) :
         \E o \in bulk_push(Merger, InputImages(image_dimensions, ids)) :
              /\ Finish(o, [NoCall EXCEPT !.op = "bulk_push", !.n = Len(ids)], "insert")
              /\ history' = IF o.result = "ok" THEN history \o ids ELSE history

RemoveImage ==
    /\ created
    /\ \E index \in 0..(capacity - 1) :
         \E o \in remove_image(Merger, index) :
              /\ Finish(o, [NoCall EXCEPT !.op = "remove_image"], "any")
              /\ UNCHANGED history

Next == Push \/ BulkPush \/ RemoveImage

Spec == Init /\ [][Next]_vars

(* --------------------------- the ResizeMerger -------------------------- *)
\* The calls of the ResizeMerger trait on a merger built by new.
InitRM ==
    \E dims \in Dimensions, ipr \in 1..MaxCols, total \in 1..MaxTotal, pad \in Paddings :
        LET s == CanvasSize(dims, ipr, total, pad)
            need == s.width * s.height * CHANNEL_COUNT
        IN InitWith(Some(new(dims, ipr, total, pad)),
                    [total_images |-> total, len |-> need, need |-> need])

ResizePush ==
    /\ created
    /\ \E id \in ResizeIds :
         \E o \in resize_push(Merger, InputImage(image_dimensions, id)) :
              /\ Finish(o, [NoCall EXCEPT !.op = "resize_push", !.n = 1], "resize_push")
              /\ history' = IF o.result = "ok" THEN Append(history, id) ELSE history

ResizeBulkPush ==
    /\ created
    /\ \E ids \in BatchesOf(ResizeIds) :
         \E o \in resize_bulk_push(Merger, InputImages(image_dimensions, ids)) :
              /\ Finish(o, [NoCall EXCEPT !.op = "resize_bulk_push", !.n = Len(ids)],
                        "resize_insert")
              /\ history' = IF o.result = "ok" THEN history \o ids ELSE history

NextRM == ResizePush \/ ResizeBulkPush

SpecRM == InitRM /\ [][NextRM]_vars

(* --------------------- resize_nearest_neighbor alone -------------------- *)
\* The sizes of the images resized and of the sizes asked for: at most
\* MaxSource pixels.
SourceDimensions == { d \in (1..MaxSource) \X (1..MaxSource) : d[1] * d[2] <= MaxSource }

\* No merger is built: a caller holds an image of one of the sizes S and
\* asks for another of them.
InitResize(S) ==
    \E d \in S, n \in S :
      /\ created = FALSE
      /\ canvas = Image_new(1, 1)
      /\ image_dimensions = <<1, 1>>
      /\ num_images = 0
      /\ images_per_row = 1
      /\ last_pasted_index = -1
      /\ total_rows = 1
      /\ padding = None
      /\ ctor = [total_images |-> 0, len |-> 0, need |-> 0]
      /\ history = <<>>
      /\ calls = "push"
      /\ last = NoCall
      /\ resized = Some([image |-> TestImage(1, d[1], d[2]),
                         nwidth |-> n[1], nheight |-> n[2],
                         returned |-> FALSE, out |-> None])
      /\ pc = "idle"
      /\ pending = {}
      /\ inflight = None
      /\ handouts = NoHandouts
      /\ threads = None

InitFn == InitResize(SourceDimensions)

\* The call of resize_nearest_neighbor; out = None afterwards stands for a
\* panic of image.get_pixel.
ResizeNearestNeighbor ==
    /\ resized # None
    /\ ~resized[1].returned
    /\ resized' = Some([resized[1] EXCEPT
                          !.returned = TRUE,
                          !.out = resize_nearest_neighbor(resized[1].image,
                                                          resized[1].nwidth,
                                                          resized[1].nheight)])
    /\ UNCHANGED <<created, canvas, image_dimensions, num_images, images_per_row,
                   last_pasted_index, total_rows, padding, ctor, history, calls, last,
                   pc, pending, inflight, handouts, threads>>

NextFn == ResizeNearestNeighbor

SpecFn == InitFn /\ [][NextFn]_vars

(* ------------------------- the ImageCell alone ------------------------- *)
\* A caller of the raw module holds an ImageCell and requests and uses
\* handouts on it.
InitCell ==
    \E d \in Dimensions :
      /\ created = FALSE
      /\ canvas = Image_new(d[1], d[2])
      /\ image_dimensions = d
      /\ num_images = 0
      /\ images_per_row = 1
      /\ last_pasted_index = -1
      /\ total_rows = 1
      /\ padding = None
      /\ ctor = [total_images |-> 0, len |-> 0, need |-> 0]
      /\ history = <<>>
      /\ calls = "push"
      /\ last = NoCall
      /\ resized = None
      /\ pc = "idle"
      /\ pending = {}
      /\ inflight = None
      /\ handouts = NoHandouts
      /\ threads = None

\* How many unchecked handouts for coordinate c are held.
Held(c) == Cardinality({ h \in handouts.unchecked : h[1] = c })

CellUnchanged ==
    UNCHANGED <<created, image_dimensions, num_images, images_per_row,
                last_pasted_index, total_rows, padding, ctor, history, calls,
                resized, pc, pending, inflight, threads>>

RequestHandout ==
    /\ ~created
    /\ \E c \in Coordinates(canvas) :
         /\ Held(c) < MaxHandouts
         /\ LET h == request_handout(c[1], c[2])
            IN /\ handouts' = [handouts EXCEPT !.unchecked = @ \cup { <<c, Held(c) + 1>> }]
               /\ last' = [NoCall EXCEPT !.op = "request_handout", !.n = h.x + h.y]
    /\ UNCHANGED canvas
    /\ CellUnchanged

RequestHandoutChecked ==
    /\ ~created
    /\ \E c \in Coordinates(canvas) :
         LET r == request_handout_checked(handouts.tracked, c[1], c[2])
         IN /\ handouts' = [handouts EXCEPT
                              !.tracked = r.tracked,
                              !.checked = IF r.handout = None THEN @ ELSE @ \cup { c }]
            /\ last' = [NoCall EXCEPT !.op = "request_handout_checked",
                                      !.result = IF r.handout = None THEN "none" ELSE "ok",
                                      !.n = c[1] + c[2]]
    /\ UNCHANGED canvas
    /\ CellUnchanged

\* Handout::put_pixel: the one write a handout is for; the handout is gone
\* afterwards.
PutPixel ==
    /\ ~created
    /\ \E c \in Coordinates(canvas) :
         /\ \/ /\ c \in handouts.checked
               /\ handouts' = [handouts EXCEPT !.checked = @ \ { c },
                                               !.tracked = @ \ { c }]
            \/ /\ Held(c) > 0
               /\ handouts' = [handouts EXCEPT !.unchecked = @ \ { <<c, Held(c)>> }]
         /\ canvas' = ApplyWrites(canvas, { [task |-> <<0>>, x |-> c[1], y |-> c[2],
                                             pixel |-> get_pixel(TestImage(1, canvas.width,
                                                                           canvas.height),
                                                                 c[1], c[2])] })
         /\ last' = [NoCall EXCEPT !.op = "put_pixel", !.n = c[1] + c[2]]
    /\ CellUnchanged

NextCell == RequestHandout \/ RequestHandoutChecked \/ PutPixel

SpecCell == InitCell /\ [][NextCell]_vars

(* ------------------------ the parallel regions ------------------------- *)
\* The calls taken one pixel write at a time.  par_chunks_exact(..).for_each
\* and into_par_iter().for_each hand the pixel writes to the worker pool and
\* block the caller until each of them has run; the workers run them in any
\* order.
ParDimensions == { d \in (1..(2 * MaxCell)) \X (1..(2 * MaxCell)) : d[1] * d[2] <= 2 * MaxCell }

InitPar ==
    \/ \E dims \in Dimensions, ipr \in 1..MaxCols, total \in 1..MaxTotal, pad \in Paddings :
         LET s == CanvasSize(dims, ipr, total, pad)
             need == s.width * s.height * CHANNEL_COUNT
         IN InitWith(Some(new(dims, ipr, total, pad)),
                     [total_images |-> total, len |-> need, need |-> need])
    \/ InitResize(ParDimensions)

\* A call that panics before it spawns anything.
Panicked(call, ids) ==
    /\ last' = [call EXCEPT !.result = "panic"]
    /\ inflight' = Some([m |-> Merger, ids |-> ids])
    /\ UNCHANGED <<created, canvas, image_dimensions, num_images, images_per_row,
                   last_pasted_index, total_rows, padding, ctor, history, calls,
                   resized, pc, pending, handouts, threads>>

\* Variant: the counters are advanced before the parallel region is entered.
Spawned_counting(call, ids, writes) ==
    /\ pc' = "joining"
    /\ pending' = pending \cup writes
    /\ last' = [call EXCEPT !.result = "joining"]
    /\ inflight' = Some([m |-> Merger, ids |-> ids])
    /\ num_images' = num_images + call.n
    /\ last_pasted_index' = last_pasted_index + call.n
    /\ UNCHANGED <<created, canvas, image_dimensions, images_per_row,
                   total_rows, padding, ctor, history, calls, handouts, threads>>

\* A call that enters its parallel region.
Spawned(call, ids, writes) ==
    /\ pc' = "joining"
    /\ pending' = pending \cup writes
    /\ last' = [call EXCEPT !.result = "joining"]
    /\ inflight' = Some([m |-> Merger, ids |-> ids])
    /\ UNCHANGED <<created, canvas, image_dimensions, num_images, images_per_row,
                   last_pasted_index, total_rows, padding, ctor, history, calls,
                   handouts, threads>>

\* push up to the for_each of paste.
CallPush ==
    /\ created /\ pc = "idle"
    /\ \E id \in CellIds :
         LET call == [NoCall EXCEPT !.op = "push", !.n = 1]
         IN IF get_next_paste_coordinates(Merger) = None
            THEN Panicked(call, <<id>>)
            ELSE /\ Spawned(call, <<id>>, push_writes(Merger, InputImage(image_dimensions, id)))
                 /\ UNCHANGED resized

\* bulk_push up to its for_each.
CallBulkPush ==
    /\ created /\ pc = "idle"
    /\ \E ids \in BatchesOf(CellIds) :
         LET call == [NoCall EXCEPT !.op = "bulk_push", !.n = Len(ids)]
         IN IF additional_space(Merger) < Len(ids)
            THEN Panicked(call, ids)
            ELSE /\ Spawned(call, ids,
                            bulk_push_writes(Merger, InputImages(image_dimensions, ids)))
                 /\ UNCHANGED resized

\* resize_nearest_neighbor up to its for_each: the new image is allocated.
CallResize ==
    /\ ~created /\ pc = "idle"
    /\ resized # None /\ ~resized[1].returned /\ resized[1].out = None
    /\ LET r == resized[1]
           call == [NoCall EXCEPT !.op = "resize_nearest_neighbor"]
       IN /\ ~resize_panics(r.image, r.nwidth, r.nheight)
          /\ Spawned(call, <<>>, resize_writes(r.image, r.nwidth, r.nheight))
          /\ resized' = Some([r EXCEPT !.out = Some(Image_new(r.nwidth, r.nheight))])

\* A worker runs one of the spawned writes: request_handout, unsafe_put_pixel.
Write ==
    \E w \in pending :
       /\ pending' = pending \ {w}
       /\ IF last.op = "resize_nearest_neighbor"
          THEN /\ resized' = Some([resized[1] EXCEPT
                                     !.out = Some(ApplyWrites(resized[1].out[1], {w}))])
               /\ UNCHANGED canvas
          ELSE /\ canvas' = ApplyWrites(canvas, {w})
               /\ UNCHANGED resized
       /\ UNCHANGED <<created, image_dimensions, num_images, images_per_row,
                      last_pasted_index, total_rows, padding, ctor, history, calls,
                      last, pc, inflight, handouts, threads>>

\* Variant: for_each does not wait for the writes it spawned.
Return_early ==
    /\ pc = "joining"
    /\ pc' = "idle"
    /\ last' = [last EXCEPT !.result = "ok"]
    /\ IF last.op = "resize_nearest_neighbor"
       THEN /\ resized' = Some([resized[1] EXCEPT !.returned = TRUE])
            /\ UNCHANGED <<last_pasted_index, num_images, history>>
       ELSE /\ last_pasted_index' = last_pasted_index + last.n
            /\ num_images' = num_images + last.n
            /\ history' = history \o inflight[1].ids
            /\ UNCHANGED resized
    /\ UNCHANGED <<created, canvas, image_dimensions, images_per_row, total_rows,
                   padding, ctor, calls, pending, inflight, handouts, threads>>

\* for_each returns when every write it spawned has run; the call then
\* advances the counters (push, bulk_push) or hands the new image back
\* (resize_nearest_neighbor) and returns.
Return ==
    /\ pc = "joining"
    /\ pending = {}
    /\ pc' = "idle"
    /\ last' = [last EXCEPT !.result = "ok"]
    /\ IF last.op = "resize_nearest_neighbor"
       THEN /\ resized' = Some([resized[1] EXCEPT !.returned = TRUE])
            /\ UNCHANGED <<last_pasted_index, num_images, history>>
       ELSE /\ last_pasted_index' = last_pasted_index + last.n
            /\ num_images' = num_images + last.n
            /\ history' = history \o inflight[1].ids
            /\ UNCHANGED resized
    /\ UNCHANGED <<created, canvas, image_dimensions, images_per_row, total_rows,
                   padding, ctor, calls, pending, inflight, handouts, threads>>

NextPar == CallPush \/ CallBulkPush \/ CallResize \/ Write \/ Return

\* The pool runs every spawned write and the caller is woken when the last
\* one has run.
SpecPar == InitPar /\ [][NextPar]_vars /\ WF_vars(Write) /\ WF_vars(Return)

(* ---------------------------- paste alone ------------------------------ *)
\* The images a caller of paste can hold: built by Image::new_from_raw from a
\* container of the pixels of image id and up to MaxSlack pixels more.
SourceImages ==
    { Image_new_from_raw(d[1], d[2],
                         TestImage(id, (d[1] * d[2]) + slack, 1).data)[1]
      : d \in Dimensions, id \in CellIds, slack \in 0..MaxSlack }

\* A caller of the raw module holds an ImageCell over a filled image, a top
\* image and a point of the bottom image.
InitPaste ==
    \E d \in ParDimensions, top \in SourceImages :
      \E loc \in Coordinates(Image_new(d[1], d[2])) :
        /\ created = FALSE
        /\ canvas = TestImage(OddId, d[1], d[2])
        /\ image_dimensions = <<top.width, top.height>>
        /\ num_images = 0
        /\ images_per_row = 1
        /\ last_pasted_index = -1
        /\ total_rows = 1
        /\ padding = None
        /\ ctor = [total_images |-> 0, len |-> 0, need |-> 0]
        /\ history = <<>>
        /\ calls = "push"
        /\ last = NoCall
        /\ resized = None
        /\ pc = "idle"
        /\ pending = {}
        /\ inflight = Some([bottom |-> TestImage(OddId, d[1], d[2]), top |-> top,
                            loc |-> [x |-> loc[1], y |-> loc[2]]])
        /\ handouts = NoHandouts
        /\ threads = None

\* The call paste(&bottom, &top, loc).
Paste ==
    /\ ~created /\ last.op = "none" /\ inflight # None
    /\ \E o \in PasteOutcomes(Merger, paste(inflight[1].top, inflight[1].loc)) :
         /\ canvas' = o.m.canvas
         /\ last' = [NoCall EXCEPT !.op = "paste", !.result = o.result,
                                   !.n = IF o.oob THEN 1 ELSE 0]
    /\ UNCHANGED <<created, image_dimensions, num_images, images_per_row,
                   last_pasted_index, total_rows, padding, ctor, history, calls,
                   resized, pc, pending, inflight, handouts, threads>>

NextPaste == Paste

SpecPaste == InitPaste /\ [][NextPaste]_vars

(* ------------------- two calls on one merger at once ------------------- *)
\* push and bulk_push take &mut self and hold no lock.  Two threads that
\* reach one merger (through a raw pointer, as the ImageCell does for the
\* canvas) run the statements of their calls interleaved: the capacity check
\* and the read of last_pasted_index, the paste, and the two += each as a
\* load and a store.  With threads.serialized the caller wraps every call in
\* a lock.
Threads == 1..2

\* The calls the two threads make: thread 1 a push, thread 2 a push or a
\* bulk_push.
RaceCalls ==
    { [op |-> "push", ids |-> <<2>>] }
    \cup { [op |-> "bulk_push", ids |-> ids] : ids \in BatchesOf({2}) }

ThreadOf(call) ==
    [pc |-> "ready", op |-> call.op, ids |-> call.ids, index |-> -1, reg |-> 0]

InitRace ==
    \E dims \in Dimensions, ipr \in 1..MaxCols, total \in 1..MaxTotal, pad \in Paddings :
      \E serialized \in BOOLEAN, call \in RaceCalls :
        LET s == CanvasSize(dims, ipr, total, pad)
            need == s.width * s.height * CHANNEL_COUNT
            m == new(dims, ipr, total, pad)
        IN /\ created = TRUE
           /\ canvas = m.canvas
           /\ image_dimensions = m.image_dimensions
           /\ num_images = m.num_images
           /\ images_per_row = m.images_per_row
           /\ last_pasted_index = m.last_pasted_index
           /\ total_rows = m.total_rows
           /\ padding = m.padding
           /\ ctor = [total_images |-> total, len |-> need, need |-> need]
           /\ history = <<>>
           /\ calls = "any"
           /\ last = NoCall
           /\ resized = None
           /\ pc = "idle"
           /\ pending = {}
           /\ inflight = None
           /\ handouts = NoHandouts
           /\ threads = [serialized |-> serialized,
                         call |-> [t \in Threads |->
                                     IF t = 1 THEN ThreadOf([op |-> "push", ids |-> <<1>>])
                                     ELSE ThreadOf(call)],
                         targets |-> {},
                         completed |-> 0]

\* TRUE iff thread t is between the first and the last statement of its call.
InCall(t) == threads.call[t].pc \notin {"ready", "done", "panicked"}

RaceUnchanged ==
    UNCHANGED <<created, image_dimensions, images_per_row, total_rows, padding, ctor,
                history, calls, last, resized, pc, pending, inflight, handouts>>

\* push: get_next_paste_coordinates (the capacity check and the coordinates of
\* slot last_pasted_index + 1); bulk_push: the capacity check.
Begin(t) ==
    LET c == threads.call[t]
    IN /\ c.pc = "ready"
       /\ threads.serialized => \A u \in Threads : ~InCall(u)
       /\ threads' =
            IF c.op = "push"
            THEN IF get_next_paste_coordinates(Merger) = None
                 THEN [threads EXCEPT !.call[t].pc = "panicked"]
                 ELSE [threads EXCEPT !.call[t].pc = "paste",
                                      !.call[t].index = last_pasted_index + 1]
            ELSE IF additional_space(Merger) < Len(c.ids)
                 THEN [threads EXCEPT !.call[t].pc = "panicked"]
                 ELSE [threads EXCEPT !.call[t].pc = "paste"]
       /\ UNCHANGED <<canvas, num_images, last_pasted_index>>
       /\ RaceUnchanged

\* The paste of push at the coordinates it computed, or the parallel region
\* of bulk_push, whose tasks read last_pasted_index.  Stores past the end of
\* the buffer are left out of the canvas.
DoPaste(t) ==
    LET c == threads.call[t]
        images == InputImages(image_dimensions, c.ids)
        writes == IF c.op = "push"
                  THEN paste(images[1], get_paste_coordinates_unchecked(Merger, c.index))
                  ELSE bulk_push_writes(Merger, images)
        slots == IF c.op = "push" THEN { c.index }
                 ELSE { index + last_pasted_index + 1 : index \in 0..(Len(c.ids) - 1) }
    IN /\ c.pc = "paste"
       /\ canvas' = ApplyWrites(canvas, writes)
       /\ threads' = [threads EXCEPT !.call[t].pc = "load_index",
                                     !.targets = @ \cup { <<t, k>> : k \in slots }]
       /\ UNCHANGED <<num_images, last_pasted_index>>
       /\ RaceUnchanged

\* self.last_pasted_index += n: the load.
LoadIndex(t) ==
    /\ threads.call[t].pc = "load_index"
    /\ threads' = [threads EXCEPT !.call[t].pc = "store_index",
                                  !.call[t].reg = last_pasted_index]
    /\ UNCHANGED <<canvas, num_images, last_pasted_index>>
    /\ RaceUnchanged

\* Variant: the store writes the loaded value back.
StoreIndex_kept(t) ==
    /\ threads.call[t].pc = "store_index"
    /\ last_pasted_index' = threads.call[t].reg
    /\ threads' = [threads EXCEPT !.call[t].pc = "load_num"]
    /\ UNCHANGED <<canvas, num_images>>
    /\ RaceUnchanged

\* self.last_pasted_index += n: the store.
StoreIndex(t) ==
    /\ threads.call[t].pc = "store_index"
    /\ last_pasted_index' = threads.call[t].reg + Len(threads.call[t].ids)
    /\ threads' = [threads EXCEPT !.call[t].pc = "load_num"]
    /\ UNCHANGED <<canvas, num_images>>
    /\ RaceUnchanged

\* self.num_images += n: the load.
LoadNum(t) ==
    /\ threads.call[t].pc = "load_num"
    /\ threads' = [threads EXCEPT !.call[t].pc = "store_num",
                                  !.call[t].reg = num_images]
    /\ UNCHANGED <<canvas, num_images, last_pasted_index>>
    /\ RaceUnchanged

\* self.num_images += n: the store; the call returns.
StoreNum(t) ==
    /\ threads.call[t].pc = "store_num"
    /\ num_images' = threads.call[t].reg + Len(threads.call[t].ids)
    /\ threads' = [threads EXCEPT !.call[t].pc = "done",
                                  !.completed = @ + Len(threads.call[t].ids)]
    /\ UNCHANGED <<canvas, last_pasted_index>>
    /\ RaceUnchanged

NextRace ==
    \E t \in Threads :
       \/ Begin(t) \/ DoPaste(t)
       \/ LoadIndex(t) \/ StoreIndex(t)
       \/ LoadNum(t) \/ StoreNum(t)

SpecRace == InitRace /\ [][NextRace]_vars

(* ----------------------- the source read alone ------------------------- *)
\* The short sides of the images read, and how far beyond 2^24 the long sides
\* go.
MaxSide == 3
MaxBeyond == 4

\* The widths and heights: the short ones, and the first ones that an f32
\* no longer holds exactly.
Sides == (1..MaxSide) \cup { (2 ^ MANTISSA_DIGITS) + d : d \in 0..MaxBeyond }

\* The sizes of the images resized and of the sizes asked for: at most one
\* side is long.
ReadDimensions == { d \in Sides \X Sides : d[1] <= MaxSide \/ d[2] <= MaxSide }

\* The first two and the last two of the positions 0 .. n - 1.
Ends(n) == { k \in { 0, 1, n - 2, n - 1 } : 0 <= k /\ k < n }

\* A caller holds an image of one of the sizes and asks for another; one
\* task of the parallel loop, the one of the new pixel (i, j), is followed.
\* The pixel data plays no part in the coordinate it reads.
InitRead ==
    \E d \in ReadDimensions, n \in ReadDimensions :
      \E i \in Ends(n[1]), j \in Ends(n[2]) :
        /\ created = FALSE
        /\ canvas = Image_new(1, 1)
        /\ image_dimensions = <<1, 1>>
        /\ num_images = 0
        /\ images_per_row = 1
        /\ last_pasted_index = -1
        /\ total_rows = 1
        /\ padding = None
        /\ ctor = [total_images |-> 0, len |-> 0, need |-> 0]
        /\ history = <<>>
        /\ calls = "any"
        /\ last = NoCall
        /\ resized = Some([image |-> [width |-> d[1], height |-> d[2]],
                           nwidth |-> n[1], nheight |-> n[2],
                           i |-> i, j |-> j,
                           read |-> None, result |-> "none"])
        /\ pc = "idle"
        /\ pending = {}
        /\ inflight = None
        /\ handouts = NoHandouts
        /\ threads = None

\* The task computes (x, y) and calls image.get_pixel(x, y), which panics
\* for a coordinate outside the image.
ReadSource ==
    /\ resized # None
    /\ resized[1].read = None
    /\ LET r == resized[1]
           p == resize_source(r.image, r.nwidth, r.nheight, r.i, r.j)
       IN resized' = Some([r EXCEPT
                             !.read = Some(p),
                             !.result = IF p.x >= r.image.width \/ p.y >= r.image.height
                                        THEN "panic" ELSE "ok"])
    /\ UNCHANGED <<created, canvas, image_dimensions, num_images, images_per_row,
                   last_pasted_index, total_rows, padding, ctor, history, calls, last,
                   pc, pending, inflight, handouts, threads>>

NextRead == ReadSource

SpecRead == InitRead /\ [][NextRead]_vars

(* -------------------------- the constructors --------------------------- *)
\* The u32 arithmetic both constructors start with, for every images_per_row
\* and total_images a caller can pass, taken in the order of the source:
\*   total_rows   = (total_images + images_per_row - 1) / images_per_row
\*   image_gaps_x = (images_per_row - 1) * padding x
\*   image_gaps_y = (total_rows - 1) * padding y
\* A subtraction below zero panics in a build with overflow checks ("debug")
\* and wraps to 2^32 - 1 in one without ("release"); a division by zero
\* panics in both.  faults are the operations that went wrong; result is
\* "panic", "ok", or "wrapped" when the canvas the wrapped terms ask for has
\* 2^32 - padding y rows.
Builds == { "debug", "release" }

constructor_arithmetic(ipr, total_images, pad, build) ==
    LET sum == (total_images + ipr) - 1
        rows == IF ipr = 0 \/ sum < 0 THEN 0 ELSE sum \div ipr
        below == { "subtract with overflow" }
    IN IF sum < 0 /\ build = "debug"
       THEN [faults |-> below, result |-> "panic"]
       ELSE IF ipr = 0
       THEN [faults |-> (IF sum < 0 THEN below ELSE {}) \cup { "divide by zero" },
             result |-> "panic"]
       ELSE IF rows - 1 < 0
       THEN [faults |-> below,
             result |-> IF build = "debug" THEN "panic"
                        ELSE IF PadY(pad) = 0 THEN "ok" ELSE "wrapped"]
       ELSE [faults |-> {}, result |-> "ok"]

\* A caller is about to construct a merger; images_per_row and total_images
\* start at 0.
InitNew ==
    \E dims \in Dimensions, ipr \in 0..MaxCols, total \in 0..MaxTotal, pad \in Paddings :
      /\ created = FALSE
      /\ canvas = Image_new(1, 1)
      /\ image_dimensions = dims
      /\ num_images = 0
      /\ images_per_row = ipr
      /\ last_pasted_index = -1
      /\ total_rows = 0
      /\ padding = pad
      /\ ctor = [total_images |-> total, len |-> 0, need |-> 0]
      /\ history = <<>>
      /\ calls = "any"
      /\ last = NoCall
      /\ resized = None
      /\ pc = "idle"
      /\ pending = {}
      /\ inflight = None
      /\ handouts = NoHandouts
      /\ threads = None

\* The end of a constructor call: the merger it returned, if it returned one.
Constructed(op, a, opt) ==
    /\ last' = [NoCall EXCEPT !.op = op,
                              !.result = IF a.result = "ok" /\ opt = None
                                         THEN "none" ELSE a.result]
    /\ inflight' = Some([faults |-> a.faults])
    /\ IF a.result = "ok" /\ opt # None
       THEN /\ created' = TRUE
            /\ canvas' = opt[1].canvas
            /\ total_rows' = opt[1].total_rows
       ELSE UNCHANGED <<created, canvas, total_rows>>
    /\ UNCHANGED <<image_dimensions, num_images, images_per_row, last_pasted_index,
                   padding, history, calls, resized, pc, pending, handouts, threads>>

\* KnownSizeMerger::new
New ==
    /\ ~created /\ last.op = "none"
    /\ \E build \in Builds :
         LET a == constructor_arithmetic(images_per_row, ctor.total_images, padding, build)
         IN /\ Constructed("new", a,
                           IF a.result = "ok"
                           THEN Some(new(image_dimensions, images_per_row,
                                         ctor.total_images, padding))
                           ELSE None)
            /\ UNCHANGED ctor

\* KnownSizeMerger::new_from_raw with a zeroed container of up to MaxSlack
\* subpixels more or less than the canvas needs.
NewFromRaw ==
    /\ ~created /\ last.op = "none"
    /\ \E build \in Builds :
         LET a == constructor_arithmetic(images_per_row, ctor.total_images, padding, build)
         IN IF a.result = "ok"
            THEN LET s == CanvasSize(image_dimensions, images_per_row,
                                     ctor.total_images, padding)
                     need == s.width * s.height * CHANNEL_COUNT
                 IN \E len \in (need - MaxSlack)..(need + MaxSlack) :
                      /\ len >= 0
                      /\ Constructed("new_from_raw", a,
                                     new_from_raw(image_dimensions, images_per_row,
                                                  ctor.total_images, padding, Zeros(len)))
                      /\ ctor' = [ctor EXCEPT !.len = len, !.need = need]
            ELSE /\ Constructed("new_from_raw", a, None)
                 /\ UNCHANGED ctor

NextNew == New \/ NewFromRaw

SpecNew == InitNew /\ [][NextNew]_vars

(* ---------------------- the sequential reference ----------------------- *)
\* imageops::overlay for opaque pixels: top replaces bottom where it lies.
overlay(bottom, top, x, y) ==
    [bottom EXCEPT !.data =
       [k \in 1..Len(bottom.data) |->
          LET px == ((k - 1) \div CHANNEL_COUNT) % bottom.width
              py == ((k - 1) \div CHANNEL_COUNT) \div bottom.width
              c == ((k - 1) % CHANNEL_COUNT) + 1
          IN IF /\ py < bottom.height
                /\ x <= px /\ px < x + top.width
                /\ y <= py /\ py < y + top.height
             THEN get_pixel(top, px - x, py - y)[c]
             ELSE bottom.data[k]]]

RECURSIVE merge_onto(_, _, _, _, _, _)
\* The loop of merge_images_slow: image number index of the sequence goes to
\* column index % images_per_row, row index / images_per_row.
merge_onto(cv, images, index, ipr, dims, pad) ==
    IF index >= Len(images) THEN cv
    ELSE LET global_x == index % ipr
             global_y == index \div ipr
             x == (global_x * dims[1]) + (global_x * pad[1])
             y == (global_y * dims[2]) + (global_y * pad[2])
         IN merge_onto(overlay(cv, images[index + 1], x, y), images, index + 1, ipr, dims, pad)

\* merge_images_slow on a zeroed canvas of the given size.
merge_images_slow(width, height, images, ipr, dims, pad) ==
    merge_onto(Image_new(width, height), images, 0, ipr, dims, pad)

\* Two images show the same picture: same size, same pixel everywhere.
SamePicture(a, b) ==
    /\ a.width = b.width
    /\ a.height = b.height
    /\ \A x \in 0..(a.width - 1) : \A y \in 0..(a.height - 1) :
         get_pixel(a, x, y) = get_pixel(b, x, y)

ZeroPixel == [c \in 1..CHANNEL_COUNT |-> 0]

\* The top-left corner of slot k of the grid, padding included.
SlotX(k) == (k % images_per_row) * (image_dimensions[1] + PadX(padding))
SlotY(k) == (k \div images_per_row) * (image_dimensions[2] + PadY(padding))
InSlot(k, x, y) ==
    /\ SlotX(k) <= x /\ x < SlotX(k) + image_dimensions[1]
    /\ SlotY(k) <= y /\ y < SlotY(k) + image_dimensions[2]

(* ------------------------------- claims -------------------------------- *)
\* C1: after any number of pushes of cell-sized images on a fresh merger the
\* canvas is pixel-identical to the sequential reference, which overlays image
\* k at ((k mod cols)*(cell_w+pad_x), (k div cols)*(cell_h+pad_y)) on a zeroed
\* canvas of the derived size.
C1_PushMatchesReference ==
    (created /\ calls = "push") =>
        SamePicture(canvas,
                    merge_images_slow(canvas.width, canvas.height,
                                      InputImages(image_dimensions, history),
                                      images_per_row, image_dimensions,
                                      <<PadX(padding), PadY(padding)>>))

C1_Witness ==
    /\ created /\ calls = "push"
    /\ last.op = "push" /\ last.result = "ok"
    /\ num_images = capacity
    /\ images_per_row = 2 /\ total_rows = 2
    /\ PadX(padding) > 0
    /\ history[1] # history[2]

RECURSIVE push_each(_, _, _)
\* The outcomes of pushing images[i], images[i+1], ... one call after the other.
push_each(m, images, i) ==
    IF i > Len(images) THEN { Outcome(m, "ok", FALSE) }
    ELSE UNION { IF o.result = "ok" THEN push_each(o.m, images, i + 1) ELSE { o }
                 : o \in push(m, images[i]) }

\* C2: from any state, bulk_push of N <= remaining capacity cell-sized images
\* ends exactly as N pushes of the same images in the same order do (canvas,
\* num_images, last_pasted_index), and the image at batch position i lies in
\* slot last_pasted_index + 1 + i.
C2_BulkPushEqualsPushes ==
    created =>
      \A ids \in BatchesOf(CellIds) :
        Len(ids) <= capacity - num_images =>
          LET images == InputImages(image_dimensions, ids)
              bulk == bulk_push(Merger, images)
          IN /\ bulk = push_each(Merger, images, 1)
             /\ \A o \in bulk :
                  /\ o.result = "ok"
                  /\ \A i \in 0..(Len(ids) - 1) :
                       \A c \in Coordinates(images[i + 1]) :
                          get_pixel(o.m.canvas,
                                    SlotX(last_pasted_index + 1 + i) + c[1],
                                    SlotY(last_pasted_index + 1 + i) + c[2])
                            = get_pixel(images[i + 1], c[1], c[2])

C2_Witness ==
    /\ created
    /\ last.op = "bulk_push" /\ last.result = "ok" /\ last.n = 2
    /\ num_images = 3
    /\ history[2] # history[3]

\* C3: push panics if and only if num_images = capacity when it is called; a
\* grid of one column and one row takes one push and panics on the second.
C3_PushPanicsIffFull ==
    created =>
      /\ \A id \in ImageIds :
           LET outs == push(Merger, InputImage(image_dimensions, id))
           IN IF num_images = capacity
              THEN \A o \in outs : o.result = "panic"
              ELSE \A o \in outs : o.result # "panic"
      /\ (last.op = "push" /\ last.result = "panic") => num_images = capacity

C3_Witness ==
    /\ created
    /\ images_per_row = 1 /\ total_rows = 1
    /\ last.op = "push" /\ last.result = "panic"
    /\ num_images = 1

\* C4: bulk_push panics if and only if the batch is longer than
\* capacity - num_images, and a panicking bulk_push has written no pixel and
\* changed neither counter.
C4_BulkPushFailsAtomically ==
    created =>
      /\ \A ids \in BatchesOf(ImageIds) :
           LET outs == bulk_push(Merger, InputImages(image_dimensions, ids))
           IN IF Len(ids) > capacity - num_images
              THEN outs = { Outcome(Merger, "panic", FALSE) }
              ELSE \A o \in outs : o.result # "panic"
      /\ (last.op = "bulk_push" /\ last.result = "panic") => last.n > capacity - num_images

C4_Witness ==
    /\ created
    /\ last.op = "bulk_push" /\ last.result = "panic" /\ last.n = 2
    /\ capacity - num_images = 1
    /\ num_images > 0

\* C5: no call of the public API, whatever the dimensions of the images it is
\* given, issues two pixel writes to one canvas coordinate inside one parallel
\* region.
C5_PublicCallsWriteDisjoint ==
    created =>
      /\ \A id \in ImageIds :
           num_images < capacity =>
             Disjoint(push_writes(Merger, InputImage(image_dimensions, id)))
      /\ \A ids \in BatchesOf(ImageIds) :
           Len(ids) <= capacity - num_images =>
             Disjoint(bulk_push_writes(Merger, InputImages(image_dimensions, ids)))
      /\ \A index \in 0..(capacity - 1) :
           Disjoint(paste(Image_new(image_dimensions[1], image_dimensions[2]),
                          remove_image_point(Merger, index)))

\* C6: for every slot i < capacity and every padding, remove_image(i) zeroes
\* every pixel of the region push and bulk_push use for slot i and leaves every
\* other pixel of the canvas as it was.
C6_RemoveClearsExactlyTheSlot ==
    created =>
      \A i \in 0..(capacity - 1) :
        \A o \in remove_image(Merger, i) :
          /\ o.result = "ok"
          /\ \A c \in Coordinates(canvas) :
               get_pixel(o.m.canvas, c[1], c[2])
                 = IF InSlot(i, c[1], c[2]) THEN ZeroPixel
                   ELSE get_pixel(canvas, c[1], c[2])

\* C7: the canvas is cols*cell_w + (cols-1)*pad_x wide and
\* rows*cell_h + (rows-1)*pad_y high (100x100 cells, 10 columns, 10 rows and
\* padding 10 give 1090x1090), in the state after construction and after every
\* push, bulk_push and remove_image.
C7_CanvasDimensions ==
    /\ created =>
         /\ canvas.width = images_per_row * image_dimensions[1]
                             + (images_per_row - 1) * PadX(padding)
         /\ canvas.height = total_rows * image_dimensions[2]
                             + (total_rows - 1) * PadY(padding)
         /\ Len(canvas.data) = ctor.len
    /\ LET s == CanvasSize(<<100, 100>>, 10, 100, Some([x |-> 10, y |-> 10]))
       IN s.width = 1090 /\ s.height = 1090 /\ s.rows = 10

C7_Witness ==
    /\ created
    /\ images_per_row = 2 /\ total_rows = 2
    /\ PadX(padding) > 0
    /\ last.op = "remove_image"
    /\ num_images = capacity

AnyCallOutcomes ==
    UNION { push(Merger, InputImage(image_dimensions, id)) : id \in ImageIds }
    \cup UNION { bulk_push(Merger, InputImages(image_dimensions, ids))
                 : ids \in BatchesOf(ImageIds) }
    \cup UNION { remove_image(Merger, index) : index \in 0..capacity }

\* C9: 0 <= num_images <= capacity in every state, capacity being
\* images_per_row * total_rows as fixed at construction; no call, failing or
\* not, leads out of it.
C9_NumImagesWithinCapacity ==
    created =>
      /\ 0 <= num_images /\ num_images <= capacity
      /\ capacity = images_per_row * ((ctor.total_images + images_per_row - 1) \div images_per_row)
      /\ \A o \in AnyCallOutcomes :
           /\ 0 <= o.m.num_images
           /\ o.m.num_images <= o.m.images_per_row * o.m.total_rows
           /\ o.m.images_per_row * o.m.total_rows = capacity

C9_Witness ==
    /\ created
    /\ last.op = "push" /\ last.result = "panic"
    /\ calls = "any"
    /\ num_images = capacity /\ capacity = 4

\* C10: between calls last_pasted_index = num_images - 1; it is -1 on a fresh
\* merger and never below -1.
C10_LastPastedIndex ==
    created =>
      /\ last_pasted_index = num_images - 1
      /\ last_pasted_index >= -1
      /\ last.op = "none" => last_pasted_index = -1
      /\ \A o \in AnyCallOutcomes :
           o.m.last_pasted_index = o.m.num_images - 1

C10_Witness ==
    /\ created
    /\ last.op = "bulk_push" /\ last.result = "ok" /\ last.n = 2
    /\ calls = "insert"
    /\ last_pasted_index = 3


\* C11: remove_image(i) changes none of num_images, last_pasted_index and
\* capacity; the next push still goes to slot last_pasted_index + 1, and a
\* full merger still panics on push and on a non-empty bulk_push after any
\* number of remove_image calls.
C11_RemoveKeepsCounters ==
    created =>
      /\ \A i \in 0..(capacity - 1) :
           \A o \in remove_image(Merger, i) :
             /\ o.m.num_images = num_images
             /\ o.m.last_pasted_index = last_pasted_index
             /\ o.m.images_per_row * o.m.total_rows = capacity
             /\ get_next_paste_coordinates(o.m) = get_next_paste_coordinates(Merger)
             /\ num_images < capacity =>
                  get_next_paste_coordinates(o.m)
                    = Some([x |-> SlotX(last_pasted_index + 1),
                            y |-> SlotY(last_pasted_index + 1)])
             /\ num_images = capacity =>
                  /\ \A id \in ImageIds :
                       \A p \in push(o.m, InputImage(image_dimensions, id)) :
                         p.result = "panic"
                  /\ \A ids \in BatchesOf(ImageIds) :
                       Len(ids) > 0 =>
                         \A p \in bulk_push(o.m, InputImages(image_dimensions, ids)) :
                           p.result = "panic"
      /\ (last.op = "remove_image" /\ Len(history) = capacity) =>
           /\ num_images = capacity
           /\ last_pasted_index = capacity - 1
           /\ get_next_paste_coordinates(Merger) = None

C11_Witness ==
    /\ created
    /\ last.op = "remove_image" /\ last.result = "ok"
    /\ images_per_row = 1 /\ total_rows = 3
    /\ Len(history) = capacity
    /\ PadY(padding) > 0


C13_ResizeFloorMapping ==
    (resized # None /\ resized[1].returned
                    /\ resized[1].nwidth <= resized[1].image.width
                    /\ resized[1].nheight <= resized[1].image.height) =>
        LET r == resized[1]
        IN /\ r.out # None
           /\ r.out[1].width = r.nwidth
           /\ r.out[1].height = r.nheight
           /\ \A i \in 0..(r.nwidth - 1), j \in 0..(r.nheight - 1) :
                get_pixel(r.out[1], i, j)
                  = get_pixel(r.image, (i * r.image.width) \div r.nwidth,
                                       (j * r.image.height) \div r.nheight)


\* The buffers the pixel writes go to.
Buffers == <<canvas, IF resized = None THEN None ELSE resized[1].out>>

\* C14: every paste (the region of push), bulk_push and
\* resize_nearest_neighbor call that has spawned its pixel writes eventually
\* returns, provided the pool runs what is spawned; when it returns none of
\* its writes is outstanding, and no buffer changes in a step that leaves no
\* call in progress.
C14_CallsJoinTheirWrites ==
    /\ [](pc # "joining" => pending = {})
    /\ [][Buffers' # Buffers => pc' = "joining"]_vars
    /\ (pc = "joining") ~> (pc = "idle" /\ last.result = "ok")

C14_Witness ==
    /\ created
    /\ pc = "idle"
    /\ last.op = "bulk_push" /\ last.result = "ok" /\ last.n = 2
    /\ num_images = 2
    /\ image_dimensions = <<2, 1>>
    /\ pending = {}


\* C20: when a push (one paste) or a bulk_push of cell-sized images returns,
\* the merger is the same whatever order the pool ran the pixel writes in: it
\* is the one merger determined by the state at the call and the arguments,
\* and none of its subpixels depends on which of two writes came last.  No
\* two writes of a paste that lies inside the canvas store to one position.
C20_OrderIndependent ==
    /\ (created /\ pc = "idle" /\ last.result = "ok" /\ last.op \in {"push", "bulk_push"}) =>
         LET images == InputImages(image_dimensions, inflight[1].ids)
             outs == IF last.op = "push" THEN push(inflight[1].m, images[1])
                     ELSE bulk_push(inflight[1].m, images)
         IN /\ outs = { Outcome(Merger, "ok", FALSE) }
            /\ \A k \in 1..Len(canvas.data) : canvas.data[k] # Indeterminate
    /\ created =>
         \A id \in ImageIds : \A c \in Coordinates(canvas) :
           LET top == InputImage(image_dimensions, id)
               writes == paste(top, [x |-> c[1], y |-> c[2]])
           IN (c[1] + top.width <= canvas.width /\ c[2] + top.height <= canvas.height) =>
                /\ ~OutOfBuffer(canvas, writes)
                /\ \A a \in writes : \A b \in writes :
                     (pixel_indices_unchecked(canvas, a.x, a.y)
                        = pixel_indices_unchecked(canvas, b.x, b.y)) => a = b

C20_Witness ==
    /\ created
    /\ pc = "idle"
    /\ last.op = "bulk_push" /\ last.result = "ok" /\ last.n = 2
    /\ image_dimensions = <<1, 2>>
    /\ num_images = 3
    /\ history[2] # history[3]


\* The image of the cell size resize_push and resize_bulk_push insert for an
\* input: the input itself when it has the cell size, else what
\* resize_nearest_neighbor makes of it.
CellSized(image) ==
    IF <<image.width, image.height>> = image_dimensions THEN image
    ELSE resize_nearest_neighbor(image, image_dimensions[1], image_dimensions[2])[1]

RECURSIVE resize_push_each(_, _, _)
\* The outcomes of resize_push on images[i], images[i+1], ... in turn.
resize_push_each(m, images, i) ==
    IF i > Len(images) THEN { Outcome(m, "ok", FALSE) }
    ELSE UNION { IF o.result = "ok" THEN resize_push_each(o.m, images, i + 1) ELSE { o }
                 : o \in resize_push(m, images[i]) }

C17_CheckedRefusesUncheckedGrants ==
    ~created =>
      /\ \A c \in Coordinates(canvas) :
           /\ c \in handouts.checked =>
                request_handout_checked(handouts.tracked, c[1], c[2]).handout = None
           /\ request_handout(c[1], c[2]) = [x |-> c[1], y |-> c[2]]
      /\ last.op = "request_handout" => last.result = "ok"
      /\ (last.op = "request_handout_checked" /\ last.result = "ok") =>
           \E c \in handouts.checked : c[1] + c[2] = last.n

C17_Witness ==
    /\ ~created
    /\ last.op = "request_handout_checked" /\ last.result = "none"
    /\ \E c \in handouts.checked : Held(c) = 2

\* TRUE iff the rectangle a paste of image at loc covers lies inside the canvas
\* of m.
PasteInCanvas(m, image, loc) ==
    /\ loc.x + image.width <= m.canvas.width
    /\ loc.y + image.height <= m.canvas.height

\* C18: every paste push or bulk_push issues, for an image of any dimensions,
\* has target.x + source width <= canvas width and target.y + source height
\* <= canvas height.
C18_PastesStayInCanvas ==
    created =>
      /\ \A id \in ImageIds :
           num_images < capacity =>
             PasteInCanvas(Merger, InputImage(image_dimensions, id),
                           get_next_paste_coordinates(Merger)[1])
      /\ \A ids \in BatchesOf(ImageIds) :
           Len(ids) <= capacity - num_images =>
             \A index \in 0..(Len(ids) - 1) :
               PasteInCanvas(Merger, InputImage(image_dimensions, ids[index + 1]),
                             get_paste_coordinates_unchecked(
                               Merger, index + last_pasted_index + 1))

\* The rectangle of slot index: the cell-sized region at the coordinates
\* get_paste_coordinates_unchecked gives.
SlotRectangle(m, index) ==
    LET loc == get_paste_coordinates_unchecked(m, index)
    IN { <<x, y>> : x \in loc.x..(loc.x + m.image_dimensions[1] - 1),
                    y \in loc.y..(loc.y + m.image_dimensions[2] - 1) }

\* C19: for every grid (columns, rows, cell size, padding) and all slot
\* indices i # j below the capacity, the slot rectangles of i and j are
\* disjoint, each lies inside the canvas, and i and j have different
\* (column, row) grid cells.
C19_SlotsDisjointInsideCanvas ==
    created =>
      \A i \in 0..(capacity - 1) :
        /\ SlotRectangle(Merger, i) \subseteq Coordinates(canvas)
        /\ \A j \in 0..(capacity - 1) :
             i # j =>
               /\ SlotRectangle(Merger, i) \cap SlotRectangle(Merger, j) = {}
               /\ grid_cell(Merger, i) # grid_cell(Merger, j)

C19_Witness ==
    /\ created
    /\ images_per_row = 2 /\ total_rows = 2
    /\ image_dimensions = <<1, 2>>
    /\ PadY(padding) > 0
    /\ last.op = "bulk_push" /\ last.result = "ok" /\ last.n = 2
    /\ num_images = capacity
    /\ SlotRectangle(Merger, 3) = { <<1, 3>>, <<1, 4>> }

\* TRUE iff (x, y) lies in the rectangle the image top covers when its top
\* left corner is at loc.
InRectangle(top, loc, x, y) ==
    /\ loc.x <= x /\ x < loc.x + top.width
    /\ loc.y <= y /\ y < loc.y + top.height

\* C21: after paste(canvas, src, t) with t plus the source dimensions inside
\* the canvas, canvas(t.x + sx, t.y + sy) = src(sx, sy) for every source pixel
\* (the k-th chunk is pixel (k mod width, k div width)), and every canvas
\* pixel outside that rectangle is as it was.
C21_PasteCopiesTheSource ==
    (last.op = "paste" /\ last.result = "ok"
       /\ PasteInCanvas([canvas |-> canvas], inflight[1].top, inflight[1].loc))
    => LET top == inflight[1].top
           loc == inflight[1].loc
       IN \A c \in Coordinates(canvas) :
            get_pixel(canvas, c[1], c[2])
              = IF InRectangle(top, loc, c[1], c[2])
                THEN LET sx == c[1] - loc.x
                         sy == c[2] - loc.y
                         k == (sy * top.width) + sx
                     IN [ch \in 1..CHANNEL_COUNT |-> top.data[(k * CHANNEL_COUNT) + ch]]
                ELSE get_pixel(inflight[1].bottom, c[1], c[2])

\* TRUE iff the paste that issued the writes has its top left corner (the
\* write of chunk 0, whose task id ends in 0 and starts with prefix) at the
\* corner of slot k.
CornerAtSlot(writes, prefix, k) ==
    \A w \in writes :
      w.task = prefix \o <<0>> => (w.x = SlotX(k) /\ w.y = SlotY(k))

\* TRUE iff the canvas cv holds the cell-sized image at slot k.
SlotHolds(cv, k, image) ==
    \A c \in Coordinates(image) :
      get_pixel(cv, SlotX(k) + c[1], SlotY(k) + c[2]) = get_pixel(image, c[1], c[2])

\* C22: across any mix of successful push and bulk_push calls the k-th image
\* inserted (0-based) is written with its top left corner at
\* ((k mod cols)*(cell_w+pad_x), (k div cols)*(cell_h+pad_y)): the next push
\* targets slot num_images, a batch targets the slots from num_images on in
\* batch order, a successful insertion leaves the slots filled before as they
\* were, and the canvas holds the k-th image at slot k.
C22_SlotsFilledInIndexOrder ==
    /\ [](created =>
           /\ \A id \in ImageIds :
                num_images < capacity =>
                  CornerAtSlot(push_writes(Merger, InputImage(image_dimensions, id)),
                               <<>>, num_images)
           /\ \A ids \in BatchesOf(ImageIds) :
                Len(ids) <= capacity - num_images =>
                  \A index \in 0..(Len(ids) - 1) :
                    CornerAtSlot(bulk_push_writes(Merger, InputImages(image_dimensions, ids)),
                                 <<index>>, num_images + index)
           /\ calls \in {"push", "insert"} =>
                /\ Len(history) = num_images
                /\ \A k \in 0..(num_images - 1) :
                     SlotHolds(canvas, k, InputImage(image_dimensions, history[k + 1])))
    /\ [][(created /\ last'.op \in {"push", "bulk_push"} /\ last'.result = "ok") =>
            /\ num_images' = num_images + last'.n
            /\ last_pasted_index' = last_pasted_index + last'.n
            /\ \A k \in 0..(num_images - 1) :
                 \A c \in Coordinates(Image_new(image_dimensions[1], image_dimensions[2])) :
                   get_pixel(canvas', SlotX(k) + c[1], SlotY(k) + c[2])
                     = get_pixel(canvas, SlotX(k) + c[1], SlotY(k) + c[2])]_vars

C22_Witness ==
    /\ created /\ calls = "insert"
    /\ last.op = "push" /\ last.result = "ok"
    /\ images_per_row = 2 /\ num_images = 3
    /\ PadX(padding) > 0
    /\ history[1] # history[3]
    /\ SlotHolds(canvas, 2, InputImage(image_dimensions, history[3]))

\* C23: during bulk_push num_images and last_pasted_index keep their pre-call
\* values while any paste of the batch is still to run (every task computes
\* its slot from the pre-call last_pasted_index), and each counter is changed
\* once, by images.len(), after every paste of the batch has completed.
C23_CountersMoveAfterThePastes ==
    /\ []((created /\ pc = "joining" /\ last.op = "bulk_push") =>
           /\ num_images = inflight[1].m.num_images
           /\ last_pasted_index = inflight[1].m.last_pasted_index
           /\ pending \subseteq
                bulk_push_writes(Merger, InputImages(image_dimensions, inflight[1].ids)))
    /\ [][(created /\ last.op = "bulk_push"
             /\ (num_images' # num_images \/ last_pasted_index' # last_pasted_index)) =>
            /\ pc = "joining" /\ pending = {} /\ pc' = "idle"
            /\ num_images' = inflight[1].m.num_images + Len(inflight[1].ids)
            /\ last_pasted_index' = inflight[1].m.last_pasted_index + Len(inflight[1].ids)]_vars
    /\ [][(created /\ last.op = "bulk_push" /\ pc = "joining" /\ pc' = "idle") =>
            /\ num_images' = num_images + Len(inflight[1].ids)
            /\ last_pasted_index' = last_pasted_index + Len(inflight[1].ids)]_vars

C23_Witness ==
    /\ created /\ pc = "joining"
    /\ last.op = "bulk_push" /\ last.n = 2
    /\ inflight[1].m.num_images = 1 /\ num_images = 1
    /\ Cardinality(pending) = 1
    /\ \E w \in pending : w.task[1] = 0

\* Empty, Filling or Full: how far a merger with the grid of the state is
\* filled.
Phase(n) == IF n = 0 THEN "Empty" ELSE IF n < capacity THEN "Filling" ELSE "Full"

\* C24: num_images never decreases (the merger moves only Empty -> Filling ->
\* Full); it changes only in a successful push, by 1, or a successful
\* bulk_push, by images.len(); a Full merger stays Full under every call.
C24_NumImagesOnlyGrows ==
    /\ [](created =>
           /\ \A id \in ImageIds :
                \A o \in push(Merger, InputImage(image_dimensions, id)) :
                  o.m.num_images = num_images + (IF o.result = "ok" THEN 1 ELSE 0)
           /\ \A ids \in BatchesOf(ImageIds) :
                \A o \in bulk_push(Merger, InputImages(image_dimensions, ids)) :
                  o.m.num_images = num_images + (IF o.result = "ok" THEN Len(ids) ELSE 0)
           /\ \A index \in 0..capacity :
                \A o \in remove_image(Merger, index) : o.m.num_images = num_images
           /\ \A o \in AnyCallOutcomes :
                Phase(num_images) = "Full" => Phase(o.m.num_images) = "Full")
    /\ [][created =>
            /\ num_images' >= num_images
            /\ Phase(num_images) = "Full" => Phase(num_images') = "Full"
            /\ Phase(num_images') = "Empty" => Phase(num_images) = "Empty"
            /\ num_images' # num_images =>
                 /\ last'.op \in {"push", "bulk_push"} /\ last'.result = "ok"
                 /\ num_images' = num_images + last'.n
                 /\ last'.op = "push" => last'.n = 1]_vars

C24_Witness ==
    /\ created /\ calls = "any"
    /\ last.op = "remove_image" /\ last.result = "ok"
    /\ Phase(num_images) = "Full"
    /\ images_per_row = 2 /\ capacity = 2

\* ceil(n / d): the least r with r * d >= n.
CeilDiv(n, d) == CHOOSE r \in 0..n : r * d >= n /\ (r - 1) * d < n

Changed(a, b) ==
    { c \in Coordinates(a) : get_pixel(a, c[1], c[2]) # get_pixel(b, c[1], c[2]) }

\* C26: in resize_nearest_neighbor every destination coordinate (i, j) with
\* i < nwidth, j < nheight is written exactly once, by exactly one task, no
\* two tasks write one destination coordinate, and the source buffer is never
\* modified.
C26_ResizeWritesEachPixelOnce ==
    /\ []((resized # None /\ resized[1].out # None) =>
           LET r == resized[1]
               writes == resize_writes(r.image, r.nwidth, r.nheight)
           IN /\ \A c \in Coordinates(r.out[1]) :
                   Cardinality({ w \in writes : w.x = c[1] /\ w.y = c[2] }) = 1
              /\ \A w \in writes : <<w.x, w.y>> \in Coordinates(r.out[1])
              /\ \A a \in writes : \A b \in writes :
                   (pixel_indices_unchecked(r.out[1], a.x, a.y)
                      = pixel_indices_unchecked(r.out[1], b.x, b.y)) => a = b
              /\ ~OutOfBuffer(r.out[1], writes)
              /\ pc = "joining" =>
                   \A c \in Coordinates(r.out[1]) :
                     (get_pixel(r.out[1], c[1], c[2]) = ZeroPixel)
                       <=> (\E w \in pending : w.x = c[1] /\ w.y = c[2])
              /\ r.returned => Changed(r.out[1], Image_new(r.nwidth, r.nheight))
                                 = Coordinates(r.out[1]))
    /\ [][(resized # None) =>
            /\ resized' # None
            /\ resized'[1].image = resized[1].image
            /\ (resized[1].out # None /\ resized'[1].out # resized[1].out) =>
                 \E w \in pending :
                   /\ pending' = pending \ {w}
                   /\ Changed(resized'[1].out[1], resized[1].out[1]) = { <<w.x, w.y>> }
                   /\ get_pixel(resized[1].out[1], w.x, w.y) = ZeroPixel]_vars

C26_Witness ==
    /\ resized # None /\ resized[1].out # None
    /\ pc = "joining" /\ last.op = "resize_nearest_neighbor"
    /\ resized[1].image.width = 3
    /\ resized[1].nwidth = 2 /\ resized[1].nheight = 2
    /\ Cardinality(pending) = 2
    /\ get_pixel(resized[1].out[1], 1, 1) # ZeroPixel

\* TRUE iff two insertions wrote their image to one slot.
SameSlotTwice ==
    \E a \in threads.targets : \E b \in threads.targets : a # b /\ a[2] = b[2]

\* TRUE iff every call has ended and num_images is below the number of
\* insertions that completed.
LostUpdate ==
    /\ \A t \in Threads : threads.call[t].pc \in {"done", "panicked"}
    /\ num_images < threads.completed

\* C27: when the calls of two threads (two pushes, or a push and a bulk_push)
\* on one merger are serialised, no state is reachable in which two images
\* were written to one slot or a counter update was lost; the witness is such
\* a state, reached when the calls interleave.
C27_SerializedCallsKeepSlotsAndCounters ==
    (threads # None /\ threads.serialized) =>
       /\ ~SameSlotTwice
       /\ ~LostUpdate
       /\ (\A t \in Threads : ~InCall(t)) =>
            /\ num_images = threads.completed
            /\ last_pasted_index = num_images - 1

C27_Witness ==
    /\ threads # None /\ ~threads.serialized
    /\ threads.call[2].op = "push"
    /\ SameSlotTwice
    /\ LostUpdate

\* A container a caller hands to remove_image_raw: len subpixels, none zero.
RawContainer(len) == [k \in 1..len |-> 900 + k]

\* C28: remove_image_raw(index, container) returns None and leaves the canvas
\* and both counters as they were when the container cannot hold a cell-sized
\* image; otherwise it returns Some(()), the region of slot index holds the
\* container's pixels, and the counters are as they were.
C28_RemoveRawOverwritesTheSlot ==
    created =>
      LET need == image_dimensions[1] * image_dimensions[2] * CHANNEL_COUNT
      IN \A index \in 0..(capacity - 1) :
           \A len \in (need - MaxSlack)..(need + MaxSlack) :
             \A r \in remove_image_raw(Merger, index, RawContainer(len)) :
               IF len < need
               THEN r.ret = None /\ r.out.m = Merger
               ELSE /\ r.ret = Some(<<>>)
                    /\ r.out.m.num_images = num_images
                    /\ r.out.m.last_pasted_index = last_pasted_index
                    /\ \A c \in Coordinates(Image_new(image_dimensions[1],
                                                       image_dimensions[2])) :
                         get_pixel(r.out.m.canvas, SlotX(index) + c[1], SlotY(index) + c[2])
                           = [ch \in 1..CHANNEL_COUNT |->
                                RawContainer(len)[(((c[2] * image_dimensions[1]) + c[1])
                                                    * CHANNEL_COUNT) + ch]]

\* C29: remove_image(index) writes only to coordinates inside the canvas for
\* every index the API accepts, index >= capacity included: no pixel write
\* lands at a row >= canvas height or a column >= canvas width.
C29_RemoveWritesInsideCanvas ==
    created =>
      \A index \in 0..(capacity + images_per_row) :
        LET black_image == Image_new(image_dimensions[1], image_dimensions[2])
            writes == paste(black_image, remove_image_point(Merger, index))
        IN /\ \A w \in writes : w.x < canvas.width /\ w.y < canvas.height
           /\ \A o \in remove_image(Merger, index) : ~o.oob

\* C30: after any sequence of push and bulk_push calls with cell-sized images
\* (and no remove_image) every canvas pixel in a padding gap and every pixel
\* of a slot with index >= num_images holds the zero it had at construction.
C30_GapsAndFreeSlotsStayZero ==
    (created /\ calls \in {"push", "insert"}) =>
       \A c \in Coordinates(canvas) :
         (\A k \in 0..(num_images - 1) : ~InSlot(k, c[1], c[2])) =>
            get_pixel(canvas, c[1], c[2]) = ZeroPixel

C30_Witness ==
    /\ created /\ calls = "insert"
    /\ last.op = "bulk_push" /\ last.result = "ok" /\ last.n = 2
    /\ images_per_row = 2 /\ total_rows = 2
    /\ num_images = 2
    /\ PadX(padding) > 0
    /\ get_pixel(canvas, image_dimensions[1], 0) = ZeroPixel

C32_ConstructionArithmeticDefined ==
    last.op \in {"new", "new_from_raw"} => inflight[1].faults = {}

\* C33: bulk_push of an empty slice never fails, even on a Full merger, and
\* leaves the canvas, num_images and last_pasted_index as they were.
C33_EmptyBulkPushIsANoOp ==
    created =>
      /\ bulk_push(Merger, <<>>) = { Outcome(Merger, "ok", FALSE) }
      /\ bulk_push_writes(Merger, <<>>) = {}
      /\ (last.op = "bulk_push" /\ last.n = 0) => last.result = "ok"

C33_Witness ==
    /\ created
    /\ last.op = "bulk_push" /\ last.n = 0 /\ last.result = "ok"
    /\ num_images = capacity /\ capacity = 3
    /\ Len(history) = 3

\* C34: remove_image is idempotent: for every index < capacity a second
\* remove_image(index) leaves the canvas and the counters as the first left
\* them, and the paste remove_image makes after remove_image_raw changes no
\* pixel.
C34_RemoveImageIdempotent ==
    created =>
      \A index \in 0..(capacity - 1) :
        LET container == Zeros(image_dimensions[1] * image_dimensions[2] * CHANNEL_COUNT)
        IN /\ \A once \in remove_image(Merger, index) :
                /\ once.result = "ok"
                /\ remove_image(once.m, index) = { once }
           /\ \A r \in remove_image_raw(Merger, index, container) :
                /\ r.ret # None
                /\ remove_image(Merger, index) = { r.out }

C34_Witness ==
    /\ created
    /\ last.op = "remove_image" /\ last.result = "ok"
    /\ padding = None /\ images_per_row = 2
    /\ num_images = 2
    /\ get_pixel(canvas, SlotX(1), SlotY(1)) = ZeroPixel
    /\ get_pixel(canvas, SlotX(0), SlotY(0)) # ZeroPixel
    /\ remove_image(Merger, 1) = { Outcome(Merger, "ok", FALSE) }

\* C35: for every target nwidth, nheight >= 1 and every source of width
\* sw >= 1 and height sh >= 1, the source coordinate (x, y) that
\* resize_nearest_neighbor reads for destination (i, j) has x < sw and y < sh:
\* no source read is out of range.
C35_SourceReadsInRange ==
    (resized # None /\ resized[1].read # None) =>
        /\ resized[1].read[1].x < resized[1].image.width
        /\ resized[1].read[1].y < resized[1].image.height


====
